---------------------------- MODULE Spec2Model ----------------------------
(***************************************************************************)
(* A model of the Result library of src/src/core/result.ts: the two        *)
(* constructors ok and err, the predicates isOk and isErr, the extractors  *)
(* unwrapOr and unwrap, and the adapter makeSafe; and of the import of map *)
(* that the tests beside it make from it.                                  *)
(*                                                                         *)
(* The library is a set of pure functions, so the state machine is a       *)
(* caller that holds one Result at a time (cur), remembers how it got it   *)
(* (src), applies the predicates and extractors to it (seen, ext), and     *)
(* owns one wrapper made by makeSafe together with a spy on the wrapped    *)
(* function (safe, calls, invocations).                                    *)
(***************************************************************************)
EXTENDS Integers, Sequences, FiniteSets, TLC

VARIABLES cur, src, seen, ext, safe, calls, invocations

vars == <<cur, src, seen, ext, safe, calls, invocations>>

---------------------------------------------------------------------------
(* Bounds of the model.                                                    *)

\* Distinct object identities per class of object.
MaxObjId == 2
\* Longest argument list handed to a wrapper.
MaxArgs == 2
\* Wrapper invocations per wrapper.
MaxInvocations == 3

---------------------------------------------------------------------------
(* JavaScript values.  Every value is a record [t, n, s]: t is its type    *)
(* (for an object, its class), n its number / boolean bit / object         *)
(* identity, s its string contents / Error message.  Two values are the    *)
(* same value (=== on primitives, reference identity on objects) exactly   *)
(* when the records are equal.                                             *)

Null == [t |-> "null", n |-> 0, s |-> ""]
Undefined == [t |-> "undefined", n |-> 0, s |-> ""]
Num(k) == [t |-> "number", n |-> k, s |-> ""]
Str(x) == [t |-> "string", n |-> 0, s |-> x]
Bool(b) == [t |-> "boolean", n |-> IF b THEN 1 ELSE 0, s |-> ""]
\* new Error(msg), the id-th object allocated
ErrorObj(id, msg) == [t |-> "Error", n |-> id, s |-> msg]
\* new CustomError(msg, 500), class CustomError extends Error
CustomErrorObj(id, msg) == [t |-> "CustomError", n |-> id, s |-> msg]

\* What the runtime raises: a TypeError (calling what is no function) or a
\* SyntaxError (linking an import that the module does not export).
RuntimeErrorObj(cls, id, msg) == [t |-> cls, n |-> id, s |-> msg]

\* e instanceof Error
InstanceOfError(e) ==
    e.t \in {"Error", "CustomError", "TypeError", "SyntaxError"}

\* typeof v
TypeOf(v) ==
    IF v.t \in {"undefined", "number", "string", "boolean"} THEN v.t
    ELSE "object"

\* e.name: the built-in classes name themselves; CustomError does not set
\* a name and inherits "Error" from Error.prototype
ErrorName(e) == IF e.t = "CustomError" THEN "Error" ELSE e.t

\* String(v); the message of new Error(v) when v is not undefined.  On an
\* Error object it is Error.prototype.toString: the name, then the message.
StringOf(v) ==
    CASE v.t = "string" -> v.s
      [] v.t = "number" -> ToString(v.n)
      [] v.t = "boolean" -> IF v.n = 1 THEN "true" ELSE "false"
      [] v.t \in {"null", "undefined"} -> v.t
      [] OTHER -> IF v.s = "" THEN ErrorName(v)
                  ELSE ErrorName(v) \o ": " \o v.s

\* ToBoolean(v): the truthiness test of `if (v)`
Truthy(v) ==
    CASE v.t \in {"null", "undefined"} -> FALSE
      [] v.t = "number" -> v.n # 0
      [] v.t = "string" -> v.s # ""
      [] v.t = "boolean" -> v.n = 1
      [] OTHER -> TRUE

Primitives ==
    {Null, Undefined, Num(0), Num(42), Str(""), Str("Error"), Bool(FALSE)}

Objects ==
    {ErrorObj(i, "Error") : i \in 1..MaxObjId}
        \cup {CustomErrorObj(MaxObjId + i, "Something went wrong") : i \in 1..MaxObjId}

Values == Primitives \cup Objects

\* The values a caller passes as arguments, and as the default of unwrapOr.
ArgValues == {Null, Num(42), Str(""), ErrorObj(1, "Error")}

\* Objects allocated by the library itself get identities above the caller's.
FreshId == 2 * MaxObjId + 1

---------------------------------------------------------------------------
(* Completions: how a call ends.                                           *)

Return(v) == [kind |-> "return", val |-> v]
Throw(v) == [kind |-> "throw", val |-> v]
NoCompletion == [kind |-> "none", val |-> Undefined]

---------------------------------------------------------------------------
(* The library.                                                            *)

\* Mutant: ok(data ?? null), which turns undefined into null.
ok_coalesce(data) ==
    [value |-> IF data = Undefined THEN Null ELSE data, error |-> Null]

\* export const ok = (data) => ({ value: data, error: null })
ok(data) == [value |-> data, error |-> Null]

\* Mutant: the canonical-error policy, wrapping what is not an Error.
err_wrap(error) ==
    [value |-> Null,
     error |-> IF InstanceOfError(error) THEN error
               ELSE ErrorObj(FreshId, error.s)]

\* Mutant: every payload is wrapped, new Error(String(error)).
err_newError(error) ==
    [value |-> Null, error |-> ErrorObj(FreshId, StringOf(error))]

\* Mutant: the payload is stored in both fields.
err_both(error) == [value |-> error, error |-> error]

\* Mutant: the fields swapped.
err_swapped(error) == [value |-> error, error |-> Null]

\* export const err = (error) => ({ value: null, error })
err(error) == [value |-> Null, error |-> error]

\* Mutant: !result.error, the falsiness of the error field.
isOk_falsy(result) == ~Truthy(result.error)

\* Mutant: result.error == null, which undefined satisfies too.
isOk_loose(result) == result.error \in {Null, Undefined}

\* export const isOk = (result) => result.error === null
isOk(result) == result.error = Null

\* Mutant: result.error !== undefined.
isErr_notUndefined(result) == result.error # Undefined

\* Mutant: !!result.error, the truthiness of the error field.
isErr_truthy(result) == Truthy(result.error)

\* export const isErr = (result) => result.error !== null
isErr(result) == result.error # Null

\* Mutant: result.value ?? defaultValue.
unwrapOr_coalesce(result, defaultValue) ==
    Return(IF result.value \in {Null, Undefined} THEN defaultValue
           ELSE result.value)

\* export const unwrapOr = (result, defaultValue) =>
\*   isOk(result) ? result.value! : defaultValue
unwrapOr(result, defaultValue) ==
    Return(IF isOk(result) THEN result.value ELSE defaultValue)

\* Mutant: the value field decides, if (result.value !== null) return it.
unwrap_byValue(result) ==
    IF result.value # Null THEN Return(result.value) ELSE Throw(result.error)

\* Mutant: throw new Error(String(result.error)).
unwrap_wrap(result) ==
    IF isOk(result) THEN Return(result.value)
    ELSE Throw(ErrorObj(FreshId, result.error.s))

\* export const unwrap = (result) => {
\*   if (isOk(result)) return result.value!;
\*   throw result.error; }
unwrap(result) ==
    IF isOk(result) THEN Return(result.value) ELSE Throw(result.error)

\* The functions a caller hands to map.
MapFns == {"identity", "typeOf"}

\* f(value)
ApplyMapFn(f, v) == IF f = "typeOf" THEN Str(TypeOf(v)) ELSE v

\* Calling a name imported from './result' that result.ts does not export:
\* the import is undefined and the call raises a TypeError, or, where
\* imports are linked natively, the importing module fails to link with a
\* SyntaxError.
CallMissingExport(name) ==
    {Throw(RuntimeErrorObj("TypeError", FreshId, name \o " is not a function")),
     Throw(RuntimeErrorObj("SyntaxError", FreshId,
                           "'./result' does not provide an export named " \o name))}

\* import { map } from './result'; map(result, f): the ways the call can
\* end.  result.ts exports ok, err, isOk, isErr, unwrapOr, unwrap and
\* makeSafe, and no map.
map(result, f) == CallMissingExport("map")

---------------------------------------------------------------------------
(* Functions a caller hands to makeSafe.  coin is the function's own       *)
(* source of nondeterminism (Math.random() in the tests).                  *)

Fns == {"identity", "raise", "unsafeFunction"}

ArgLists == UNION {[1..k -> ArgValues] : k \in 0..MaxArgs}

\* The outcomes of Math.random() that fn can tell apart.
Coins(fn) == IF fn = "unsafeFunction" THEN BOOLEAN ELSE {FALSE}

\* args[0] in JavaScript: undefined when the list is empty
FirstArg(args) == IF Len(args) >= 1 THEN args[1] ELSE Undefined

\* fn(...args)
Apply(fn, args, coin) ==
    CASE fn = "identity" -> Return(FirstArg(args))
      [] fn = "raise" -> Throw(FirstArg(args))
      [] fn = "unsafeFunction" ->
            IF coin THEN Return(Str("It's safe!"))
            ELSE Throw(Str("It's not safe!"))

\* makeSafe(fn): the closure it returns, and the calls of fn it made
makeSafe(fn) == [fn |-> fn, trace |-> <<>>]

\* Mutant: fn is called without the wrapper's arguments.
safeFn_noargs(fn, args, coin) ==
    LET c == Apply(fn, <<>>, coin)
    IN [result |-> IF c.kind = "return" THEN ok(c.val) ELSE err(c.val),
        trace |-> <<<<>>>>]

\* Mutant: fn is called a second time after it threw.
safeFn_retry(fn, args, coin) ==
    LET c == Apply(fn, args, coin)
    IN IF c.kind = "return"
       THEN [result |-> ok(c.val), trace |-> <<args>>]
       ELSE [result |-> err(c.val), trace |-> <<args, args>>]

\* (...args) => { try { return ok(fn(...args)); } catch (e) { return err(e); } }
\* The Result it returns, and the argument lists of the calls of fn it made.
safeFn(fn, args, coin) ==
    LET c == Apply(fn, args, coin)
    IN [result |-> IF c.kind = "return" THEN ok(c.val) ELSE err(c.val),
        trace |-> <<args>>]

---------------------------------------------------------------------------
(* The caller.                                                             *)

\* Result-shaped records: what an object literal of type Ok<T> | Err<E>,
\* or one cast to it, can hold.
ResultShapes == [value : Values, error : Values]

NoSafe == [fn |-> "none", trace |-> <<>>]

\* How cur was made: the operation, its argument (ok, err) or the wrapped
\* function, argument list and coin (wrapper), and the argument lists of the
\* calls of fn the operation made.
Source(op, in, fn, args, coin, passed) ==
    [op |-> op, in |-> in, fn |-> fn, args |-> args, coin |-> coin,
     passed |-> passed]

Unseen == [isOk |-> "unset", isErr |-> "unset"]

NoExt == [op |-> "none", d |-> Undefined, f |-> "none", out |-> NoCompletion]

Flag(b) == IF b THEN "true" ELSE "false"

Init ==
    /\ cur \in ResultShapes
    /\ src = Source("literal", Undefined, "none", <<>>, FALSE, <<>>)
    /\ seen = Unseen
    /\ ext = NoExt
    /\ safe = NoSafe
    /\ calls = 0
    /\ invocations = 0

\* cur = ok(v)
CallOk ==
    \E v \in Values :
        /\ cur' = ok(v)
        /\ src' = Source("ok", v, "none", <<>>, FALSE, <<>>)
        /\ seen' = Unseen
        /\ ext' = NoExt
        /\ UNCHANGED <<safe, calls, invocations>>

\* cur = err(e)
CallErr ==
    \E e \in Values :
        /\ cur' = err(e)
        /\ src' = Source("err", e, "none", <<>>, FALSE, <<>>)
        /\ seen' = Unseen
        /\ ext' = NoExt
        /\ UNCHANGED <<safe, calls, invocations>>

\* isOk(cur)
CallIsOk ==
    /\ seen.isOk = "unset"
    /\ seen' = [seen EXCEPT !.isOk = Flag(isOk(cur))]
    /\ UNCHANGED <<cur, src, ext, safe, calls, invocations>>

\* isErr(cur)
CallIsErr ==
    /\ seen.isErr = "unset"
    /\ seen' = [seen EXCEPT !.isErr = Flag(isErr(cur))]
    /\ UNCHANGED <<cur, src, ext, safe, calls, invocations>>

\* unwrapOr(cur, d)
CallUnwrapOr ==
    \E d \in ArgValues :
        /\ ext' = [op |-> "unwrapOr", d |-> d, f |-> "none",
                   out |-> unwrapOr(cur, d)]
        /\ UNCHANGED <<cur, src, seen, safe, calls, invocations>>

\* try { unwrap(cur) } catch (e) { ... }
CallUnwrap ==
    /\ ext' = [op |-> "unwrap", d |-> Undefined, f |-> "none",
               out |-> unwrap(cur)]
    /\ UNCHANGED <<cur, src, seen, safe, calls, invocations>>

\* try { map(cur, f) } catch (e) { ... }
CallMap ==
    \E f \in MapFns :
        \E out \in map(cur, f) :
            /\ ext' = [op |-> "map", d |-> Undefined, f |-> f, out |-> out]
            /\ UNCHANGED <<cur, src, seen, safe, calls, invocations>>

\* safe = makeSafe(fn), fn a fresh spy
CallMakeSafe ==
    \E fn \in Fns :
        /\ safe' = makeSafe(fn)
        /\ calls' = Len(makeSafe(fn).trace)
        /\ invocations' = 0
        /\ UNCHANGED <<cur, src, seen, ext>>

\* cur = safe(...args)
CallSafeFn ==
    /\ safe.fn # "none"
    /\ invocations < MaxInvocations
    /\ \E args \in ArgLists, coin \in Coins(safe.fn) :
        LET r == safeFn(safe.fn, args, coin)
        IN /\ cur' = r.result
           /\ src' = Source("safe", Undefined, safe.fn, args, coin, r.trace)
           /\ calls' = calls + Len(r.trace)
           /\ invocations' = invocations + 1
           /\ seen' = Unseen
           /\ ext' = NoExt
           /\ UNCHANGED safe

Next ==
    \/ CallOk
    \/ CallErr
    \/ CallIsOk
    \/ CallIsErr
    \/ CallUnwrapOr
    \/ CallUnwrap
    \/ CallMap
    \/ CallMakeSafe
    \/ CallSafeFn

Spec == Init /\ [][Next]_vars

---------------------------------------------------------------------------
(* Properties.                                                             *)

\* What fn does on the call the wrapper was asked to make.
FnCompletion == Apply(src.fn, src.args, src.coin)

\* C1: for every value v, null and undefined included, ok(v) has value v
\* and error null, isOk of it is true and isErr of it is false.
OkHoldsItsValue ==
    src.op = "ok" =>
        /\ cur.value = src.in
        /\ cur.error = Null
        /\ seen.isOk \in {"unset", "true"}
        /\ seen.isErr \in {"unset", "false"}

\* ok(undefined) has been built and both predicates applied to it.
OkOfUndefinedClassified ==
    /\ src.op = "ok"
    /\ src.in = Undefined
    /\ cur.value = Undefined
    /\ seen.isOk = "true"
    /\ seen.isErr = "false"

\* C2: for every e other than null, err(e) has value null, isErr of it is
\* true and isOk of it is false.
ErrOfNonNullIsFailure ==
    (src.op = "err" /\ src.in # Null) =>
        /\ cur.value = Null
        /\ seen.isErr \in {"unset", "true"}
        /\ seen.isOk \in {"unset", "false"}

\* err(undefined) has been built and both predicates applied to it.
ErrOfUndefinedClassified ==
    /\ src.op = "err"
    /\ src.in = Undefined
    /\ seen.isErr = "true"
    /\ seen.isOk = "false"

\* C3: err stores its argument verbatim: the error field of err(e) is e
\* itself, whatever e is; a string is not wrapped into an Error and an
\* Error instance is not wrapped again or copied.
ErrStoresVerbatim ==
    src.op = "err" => cur.error = src.in

\* err has been given a string, which a canonical-error policy would wrap.
ErrOfStringBuilt ==
    /\ src.op = "err"
    /\ src.in = Str("Error")
    /\ cur.error = Str("Error")

\* C4: isErr is the negation of isOk: on every Result-shaped record, exactly
\* one of the two is true.
IsErrNegatesIsOk ==
    (seen.isOk # "unset" /\ seen.isErr # "unset") =>
        seen.isOk # seen.isErr

\* Both predicates applied to a record whose error field is a falsy value
\* other than null, next to a non-null value field.
FalsyErrorClassified ==
    /\ src.op = "literal"
    /\ cur.error \in {Undefined, Str(""), Num(0), Bool(FALSE)}
    /\ cur.value # Null
    /\ seen.isOk = "false"
    /\ seen.isErr = "true"

\* C5: unwrapOr(r, d) never throws; it returns r.value when isOk(r) holds,
\* also when that value is null, and d otherwise.
UnwrapOrValueOrDefault ==
    ext.op = "unwrapOr" =>
        /\ ext.out.kind = "return"
        /\ seen.isOk = "true" => ext.out.val = cur.value
        /\ seen.isOk = "false" => ext.out.val = ext.d

\* unwrapOr applied with a non-null default to a success holding null.
UnwrapOrOfOkNull ==
    /\ ext.op = "unwrapOr"
    /\ seen.isOk = "true"
    /\ cur.value = Null
    /\ ext.d = Num(42)
    /\ ext.out = Return(Null)

\* C6: unwrap(r) returns r.value when isOk(r) holds; when isErr(r) holds it
\* throws, and what it throws is r.error itself.
UnwrapValueOrThrowStored ==
    ext.op = "unwrap" =>
        /\ seen.isOk = "true" => ext.out = Return(cur.value)
        /\ seen.isErr = "true" => ext.out = Throw(cur.error)

\* unwrap applied to err("Error") has thrown.
UnwrapOfErrThrew ==
    /\ ext.op = "unwrap"
    /\ src.op = "err"
    /\ cur.error = Str("Error")
    /\ seen.isErr = "true"
    /\ ext.out.kind = "throw"

\* C7: when fn returns normally on args, makeSafe(fn)(...args) calls fn with
\* exactly args and returns a Result with fn's return value as value and
\* null as error.
SafeFnWrapsReturn ==
    (src.op = "safe" /\ FnCompletion.kind = "return") =>
        /\ src.passed = <<src.args>>
        /\ cur.value = FnCompletion.val
        /\ cur.error = Null

\* The wrapper of the identity function called with two arguments.
SafeIdentityReturned ==
    /\ src.op = "safe"
    /\ src.fn = "identity"
    /\ src.args = <<Num(42), Null>>
    /\ cur.value = Num(42)

\* C8: when fn throws x, whatever x is, makeSafe(fn)(...args) returns a
\* failure Result: isErr true, value null, error x.
SafeFnCapturesAnyThrow ==
    (src.op = "safe" /\ FnCompletion.kind = "throw") =>
        /\ cur.value = Null
        /\ cur.error = FnCompletion.val
        /\ seen.isErr \in {"unset", "true"}

\* C9: fn is not called when it is wrapped and is called once per
\* invocation of the wrapper, whether it returned or threw.
OneCallPerInvocation ==
    calls = invocations

\* A wrapper invoked at least twice, the last time with fn throwing.
InvokedTwiceLastThrew ==
    /\ safe.fn # "none"
    /\ invocations >= 2
    /\ src.op = "safe"
    /\ FnCompletion.kind = "throw"
    /\ calls >= 2

\* C10 as stated: for every e, null included, err(e) has a non-null error
\* field, a null value field, and isErr of it is true.
ErrAlwaysFailure ==
    src.op = "err" =>
        /\ cur.error # Null
        /\ cur.value = Null
        /\ seen.isErr \in {"unset", "true"}

\* C10 as amended: for every e other than null, undefined included, err(e)
\* has a non-null error field, a null value field, and isErr of it is true.
ErrOfNonNullHasError ==
    (src.op = "err" /\ src.in # Null) =>
        /\ cur.error # Null
        /\ cur.value = Null
        /\ seen.isErr \in {"unset", "true"}

\* err("") has been built and isErr applied to it.
ErrOfEmptyStringIsErr ==
    /\ src.op = "err"
    /\ src.in = Str("")
    /\ cur.error = Str("")
    /\ seen.isErr = "true"

\* C11: the library provides map: map(ok(v), f) is a success Result with
\* value f(v) and error null, and map(err(e), f) is a failure Result with
\* error e and value null.
MapTransformsSuccess ==
    (ext.op = "map" /\ src.op \in {"ok", "err"}) =>
        /\ ext.out.kind = "return"
        /\ src.op = "ok" =>
              ext.out.val = [value |-> ApplyMapFn(ext.f, src.in), error |-> Null]
        /\ (src.op = "err" /\ src.in # Null) =>
              ext.out.val = [value |-> Null, error |-> src.in]

\* if (result.error): the truthiness of the error field
ErrorIsTruthy == Truthy(cur.error)

\* if (result.value !== null)
ValueIsNotNull == cur.value # Null

\* C12 as stated: for every Result built by ok(v) or err(e), the error field
\* is truthy exactly when isErr is true, also for the falsy payloads "", 0,
\* false and undefined.
TruthinessMatchesIsErr ==
    (src.op \in {"ok", "err"} /\ seen.isErr # "unset") =>
        (ErrorIsTruthy <=> seen.isErr = "true")

\* C12 as amended: for every Result built by ok(v), or by err(e) with e
\* truthy or null, the error field is truthy exactly when isErr is true.
TruthinessMatchesIsErrOnTruthy ==
    (/\ seen.isErr # "unset"
     /\ \/ src.op = "ok"
        \/ src.op = "err" /\ (Truthy(src.in) \/ src.in = Null)) =>
        (ErrorIsTruthy <=> seen.isErr = "true")

\* isErr applied to err of a truthy string, whose error field is truthy.
TruthyErrorIsErr ==
    /\ src.op = "err"
    /\ src.in = Str("Error")
    /\ seen.isErr = "true"
    /\ ErrorIsTruthy

\* C13 as stated: for every Result built by ok(v) or err(e), value !== null
\* holds exactly when isOk is true.
ValueCheckMatchesIsOk ==
    (src.op \in {"ok", "err"} /\ seen.isOk # "unset") =>
        (ValueIsNotNull <=> seen.isOk = "true")

\* C13 as amended: for every Result built by ok(v) with v other than null,
\* or by err(e) with e other than null, value !== null holds exactly when
\* isOk is true.
ValueCheckMatchesIsOkOnNonNull ==
    (src.op \in {"ok", "err"} /\ src.in # Null /\ seen.isOk # "unset") =>
        (ValueIsNotNull <=> seen.isOk = "true")

\* isOk applied to ok(0), whose value field is falsy and not null.
OkOfZeroIsOk ==
    /\ src.op = "ok"
    /\ src.in = Num(0)
    /\ seen.isOk = "true"
    /\ ValueIsNotNull

\* C14 as stated: err of a payload that is no Error instance returns a
\* Result whose error is an Error instance with the payload as message.
ErrWrapsNonError ==
    (src.op = "err" /\ ~InstanceOfError(src.in)) =>
        /\ InstanceOfError(cur.error)
        /\ cur.error.s = StringOf(src.in)

\* C14 as amended: err of a payload other than null that is no Error
\* instance returns a failure Result whose error is the payload itself,
\* which is no Error instance.
ErrKeepsNonError ==
    (src.op = "err" /\ ~InstanceOfError(src.in) /\ src.in # Null) =>
        /\ cur.value = Null
        /\ seen.isErr \in {"unset", "true"}
        /\ cur.error = src.in
        /\ ~InstanceOfError(cur.error)
        /\ TypeOf(cur.error) = TypeOf(src.in)

\* err of the number 42 has been built and isErr applied to it.
ErrOfNumberKept ==
    /\ src.op = "err"
    /\ src.in = Num(42)
    /\ cur.error = Num(42)
    /\ seen.isErr = "true"

\* C15: every Result returned by ok, err or a wrapper made by makeSafe has
\* a null value or a null error, never both non-null.
NeverBoth ==
    src.op \in {"ok", "err", "safe"} =>
        (cur.value = Null \/ cur.error = Null)

\* A wrapper has returned a Result with a non-null error.
SafeFnReturnedError ==
    /\ src.op = "safe"
    /\ cur.error # Null
    /\ cur.value = Null

\* C16: when fn returns or throws a value other than null,
\* unwrap(makeSafe(fn)(...args)) ends as fn(...args) does, returning the
\* value fn returned or throwing the value fn threw, with fn called once.
RoundTripThroughSafe ==
    (/\ src.op = "safe"
     /\ ext.op = "unwrap"
     /\ FnCompletion.kind = "return" \/ FnCompletion.val # Null) =>
        /\ ext.out = FnCompletion
        /\ Len(src.passed) = 1

\* unwrap of a wrapper's Result has thrown again the Error object fn threw.
RoundTripRethrewError ==
    /\ src.op = "safe"
    /\ src.fn = "raise"
    /\ src.args = <<ErrorObj(1, "Error")>>
    /\ ext.op = "unwrap"
    /\ ext.out = Throw(ErrorObj(1, "Error"))

===========================================================================
